---- MODULE Spec2Model ----
(* Model of backend/server.py: the ingestion run (perform_scrape and the     *)
(* site fetches it fans out), the scrape_status cell, and the search         *)
(* endpoint with its relevance scoring.                                      *)
EXTENDS Integers, Sequences, FiniteSets, TLC

VARIABLES
    pc,              \* where each perform_scrape execution stands
    results,         \* per run and site: what its scrape_website task returned
    content_list,    \* per run: perform_scrape's content_list
    idx,             \* per run: position of the for loop in content_list
    stored_count,    \* per run: perform_scrape's stored_count
    scraped_content, \* the collection db.scraped_content, in insertion order
    scrape_status,   \* the collection db.scrape_status (the "main" document)
    fetch_ok,        \* history: per run, the sites fetched with status 200
    fetch_failed,    \* history: per run, the sites whose fetch failed
    wrote,           \* history: per run, the status document it wrote
    errored,         \* history: per run, an exception left the try body
    ended_before,    \* history: per run, the runs that had ended when it started
    status_resp,     \* the response get_scrape_status is returning
    search_resp,     \* the response search_content is returning
    trigger_resp,    \* per run: the response trigger_scrape returned for it
    stats_pc,        \* where the get_content_stats request stands
    stats            \* what get_content_stats has read so far

vars == <<pc, results, content_list, idx, stored_count,
          scraped_content, scrape_status, fetch_ok, fetch_failed,
          wrote, errored, ended_before, status_resp, search_resp,
          trigger_resp, stats_pc, stats>>

(* ------------------------------------------------------------------------ *)
(* Bounds                                                                    *)
(* ------------------------------------------------------------------------ *)

\* Number of perform_scrape executions: run 1 is the one startup_event
\* creates, the others are scheduled by trigger_scrape.
MaxRuns == 2

Runs == 1..MaxRuns

\* The configured sites (the source lists twenty; two stand for them).
DUBLIN_WEBSITES == <<"lovin", "totallydublin">>

Sites == 1..Len(DUBLIN_WEBSITES)

(* ------------------------------------------------------------------------ *)
(* Strings: sequences of one-character strings                               *)
(* ------------------------------------------------------------------------ *)

\* str.lower() on one character.
LowerChar(c) ==
    CASE c = "A" -> "a"
      [] c = "B" -> "b"
      [] OTHER -> c

\* str.lower()
Lower(s) == [k \in DOMAIN s |-> LowerChar(s[k])]

\* Python's `sub in s` on strings.
Contains(sub, s) ==
    \E k \in 0..(Len(s) - Len(sub)) :
        \A j \in 1..Len(sub) : s[k + j] = sub[j]

(* ------------------------------------------------------------------------ *)
(* What the sites serve: the candidates scrape_website extracts              *)
(* ------------------------------------------------------------------------ *)

\* WebsiteContent as built by scrape_website (id is given at insertion time
\* in the model: it is a fresh uuid4 per constructed object).
Candidate(u, s, t, d, ct, tg, v) ==
    [url |-> u, source_website |-> s, title |-> t, description |-> d,
     content_type |-> ct, tags |-> tg, venue |-> v]

\* The articles list scrape_website returns for a page fetched with status 200.
\* Both sites link one common article ("u2").
Articles(s) ==
    IF s = 1
    THEN << Candidate("u1", s, <<"a", "b">>, <<"b">>, "event",
                      << <<"a">>, <<"a", "b">> >>, << <<"a", "t">> >>),
            Candidate("u2", s, <<"B", "b">>, <<"a">>, "article", << >>, << >>) >>
    ELSE << Candidate("u2", s, <<"B", "b">>, <<"a">>, "article",
                      << <<"b">> >>, << << >> >>) >>

\* Outcomes of one scrape_website call.
FetchOutcomes == {"ok", "non200", "caught", "raised"}


\* What one scrape_website call hands to asyncio.gather: the articles of a
\* page answered with 200, the empty list for any other status and for an
\* exception caught inside the call, or the exception itself when it escapes.
scrape_website_result(s, outcome) ==
    CASE outcome = "ok"     -> [settled |-> TRUE, is_list |-> TRUE,  value |-> Articles(s)]
      [] outcome = "raised" -> [settled |-> TRUE, is_list |-> FALSE, value |-> << >>]
      [] OTHER              -> [settled |-> TRUE, is_list |-> TRUE,  value |-> << >>]

\* A task that has not settled yet.
Pending == [settled |-> FALSE, is_list |-> FALSE, value |-> << >>]

\* The barrier of asyncio.gather: every task of the run has settled.
AllSettled(res) == \A s \in Sites : res[s].settled

RECURSIVE ExtendAll(_, _)
\* The loop over the gathered results: lists are appended in site order,
\* anything else is logged and dropped.
ExtendAll(res, n) ==
    IF n = 0 THEN << >>
    ELSE ExtendAll(res, n - 1) \o (IF res[n].is_list THEN res[n].value ELSE << >>)

\* Variant: going on as soon as one task has settled.
AnySettled(res) == \E s \in Sites : res[s].settled

\* `await asyncio.gather(...)` resumes once every task has settled.
GatherReady(res) == AllSettled(res)

\* scrape_all_websites' return value.
scrape_all_websites(res) == ExtendAll(res, Len(DUBLIN_WEBSITES))

(* ------------------------------------------------------------------------ *)
(* The store                                                                 *)
(* ------------------------------------------------------------------------ *)

\* Variant: the lookup never finds a document.
find_one_nothing(coll, url) == FALSE

\* db.scraped_content.find_one({"url": url}), as a truth value.
find_one(coll, url) == \E k \in DOMAIN coll : coll[k].url = url

\* content.dict(): the candidate with its own fresh id.
Document(c, r, k) ==
    [id |-> <<r, k>>, url |-> c.url, source_website |-> c.source_website,
     title |-> c.title, description |-> c.description,
     content_type |-> c.content_type, tags |-> c.tags, venue |-> c.venue]

\* db.scraped_content.insert_one(doc)
insert_one(coll, doc) == Append(coll, doc)

\* Variant: every candidate is counted, stored or skipped.
CountEveryCandidate(existing, count) == count + 1

\* stored_count after one candidate of the loop has been handled.
CountAfter(existing, count) == IF existing THEN count ELSE count + 1

\* The document perform_scrape writes when the loop has finished.
CompletedDoc(count) == [status |-> "completed", scraped_count |-> count]

\* The document the except branch writes.
FailedDoc == [status |-> "failed", scraped_count |-> 0]

\* db.scrape_status.replace_one({"_id": "main"}, doc, upsert=True)
replace_one(coll, doc) == << doc >>

(* ------------------------------------------------------------------------ *)
(* Relevance scoring. Scores are in thousandths: 1000 stands for 1.0.        *)
(* ------------------------------------------------------------------------ *)

Max(a, b) == IF a >= b THEN a ELSE b

Min(a, b) == IF a <= b THEN a ELSE b

\* Number of positions where two strings of one length agree.
Matches(a, b) == Cardinality({j \in 1..Len(a) : a[j] = b[j]})

\* The best similarity, in percent and rounded, of `short` against the
\* windows of `long` that are as long as `short`.
BestWindow(short, long) ==
    LET n == Len(short)
        pct(k) == (200 * Matches(short, SubSeq(long, k, k + n - 1)) + n) \div (2 * n)
    IN  CHOOSE m \in {pct(k) : k \in 1..(Len(long) - n + 1)} :
            \A k \in 1..(Len(long) - n + 1) : pct(k) <= m

\* fuzz.partial_ratio: 100 for equal strings, 0 when one is empty, else the
\* best match of the shorter string inside the longer one, in 0..100.
partial_ratio(s1, s2) ==
    IF s1 = s2 THEN 100
    ELSE IF Len(s1) = 0 \/ Len(s2) = 0 THEN 0
    ELSE IF Len(s1) <= Len(s2) THEN BestWindow(s1, s2)
    ELSE BestWindow(s2, s1)

RECURSIVE TagScore(_, _, _)
\* tag_score: 0.2 for every tag that contains the query.
TagScore(tags, query_lower, n) ==
    IF n = 0 THEN 0
    ELSE TagScore(tags, query_lower, n - 1)
         + (IF Contains(query_lower, Lower(tags[n])) THEN 200 ELSE 0)

\* venue_score: venue is None (<< >>) or one string; None and "" are falsy.
VenueScore(venue, query_lower) ==
    IF venue # << >> /\ venue[1] # << >> /\ Contains(query_lower, Lower(venue[1]))
    THEN 100 ELSE 0

\* Variant: the sum is returned as it is.
Unclamped(total) == total

\* min(total, 1.0)
Clamp(total) == Min(total, 1000)

calculate_relevance_score(content, query) ==
    LET query_lower == Lower(query)
        title_score == partial_ratio(query_lower, Lower(content.title)) * 4
        desc_score  == partial_ratio(query_lower, Lower(content.description)) * 3
        tag_score   == TagScore(content.tags, query_lower, Len(content.tags))
        venue_score == VenueScore(content.venue, query_lower)
    IN  Clamp(title_score + desc_score + tag_score + venue_score)

(* ------------------------------------------------------------------------ *)
(* search_content                                                            *)
(* ------------------------------------------------------------------------ *)

\* The minimum relevance threshold, 0.1.
Threshold == 100

\* Variant: a score of exactly 0.1 passes.
AtLeastThreshold(score) == score >= Threshold

\* `if score > 0.1`
AboveThreshold(score) == score > Threshold

\* `if search_query.content_type:` - None (<< >>) and "" build no filter.
HasTypeFilter(content_type) == content_type # << >> /\ content_type[1] # ""

\* db.scraped_content.find(query_filter).to_list(length=None)
find(coll, content_type) ==
    IF HasTypeFilter(content_type)
    THEN SelectSeq(coll, LAMBDA d : d.content_type = content_type[1])
    ELSE coll

\* The SearchResult built for one document.
SearchResult(content, score) ==
    [id |-> content.id, url |-> content.url,
     content_type |-> content.content_type, relevance_score |-> score]

RECURSIVE ScoreAll(_, _, _)
\* The scoring loop: scored_results before the sort.
ScoreAll(all_content, query, n) ==
    IF n = 0 THEN << >>
    ELSE LET score == calculate_relevance_score(all_content[n], query)
             rest  == ScoreAll(all_content, query, n - 1)
         IN  IF AboveThreshold(score)
             THEN Append(rest, SearchResult(all_content[n], score))
             ELSE rest

\* Where x goes in a list sorted by descending score: behind every entry
\* that scores at least as much (list.sort is stable, also with reverse=True).
InsertPos(sorted, x) ==
    Cardinality({k \in DOMAIN sorted : sorted[k].relevance_score >= x.relevance_score})

InsertByScore(sorted, x) ==
    LET k == InsertPos(sorted, x)
    IN  SubSeq(sorted, 1, k) \o << x >> \o SubSeq(sorted, k + 1, Len(sorted))

RECURSIVE SortByScore(_, _)
\* scored_results.sort(key=lambda x: x.relevance_score, reverse=True)
SortByScore(seq, n) ==
    IF n = 0 THEN << >>
    ELSE InsertByScore(SortByScore(seq, n - 1), seq[n])

\* Python's seq[:limit]; a negative limit counts from the end.
Slice(seq, limit) ==
    IF limit >= 0
    THEN SubSeq(seq, 1, Min(limit, Len(seq)))
    ELSE SubSeq(seq, 1, Max(Len(seq) + limit, 0))

(* ------------------------------------------------------------------------ *)
(* State                                                                     *)
(* ------------------------------------------------------------------------ *)

\* A run is in flight from the first line of perform_scrape until it has
\* written its final status (or left the function).
InFlightPcs == {"fetching", "loop", "insert", "except"}

InFlight(r) == pc[r] \in InFlightPcs

NoResults == [s \in Sites |-> Pending]

\* get_content_stats has read nothing yet. by_type and by_source are the
\* dicts built from the aggregations, as functions from key to count.
NoStats == [total_articles |-> 0, by_type |-> << >>, by_source |-> << >>]

Init ==
    /\ pc = [r \in Runs |-> "idle"]
    /\ results = [r \in Runs |-> NoResults]
    /\ content_list = [r \in Runs |-> << >>]
    /\ idx = [r \in Runs |-> 0]
    /\ stored_count = [r \in Runs |-> 0]
    /\ scraped_content = << >>
    /\ scrape_status = << >>
    /\ fetch_ok = [r \in Runs |-> {}]
    /\ fetch_failed = [r \in Runs |-> {}]
    /\ wrote = [r \in Runs |-> << >>]
    /\ errored = [r \in Runs |-> FALSE]
    /\ ended_before = [r \in Runs |-> {}]
    /\ status_resp = << >>
    /\ search_resp = << >>
    /\ trigger_resp = [r \in Runs |-> << >>]
    /\ stats_pc = "idle"
    /\ stats = NoStats

locals == <<results, content_list, idx, stored_count>>

\* The get_content_stats request.
stats_vars == <<stats_pc, stats>>

history == <<fetch_ok, fetch_failed, wrote, errored, ended_before>>

\* perform_scrape returns: its locals are gone.
Return(r) ==
    /\ pc' = [pc EXCEPT ![r] = "done"]
    /\ content_list' = [content_list EXCEPT ![r] = << >>]
    /\ idx' = [idx EXCEPT ![r] = 0]
    /\ stored_count' = [stored_count EXCEPT ![r] = 0]

(* ------------------------------------------------------------------------ *)
(* Scheduling an ingestion run                                               *)
(* ------------------------------------------------------------------------ *)

\* startup_event: asyncio.create_task(perform_scrape()).
startup_event ==
    /\ pc[1] = "idle"
    /\ pc' = [pc EXCEPT ![1] = "scheduled"]
    /\ status_resp' = << >>
    /\ UNCHANGED <<locals, history, scraped_content, scrape_status, search_resp,
                   trigger_resp, stats_vars>>

\* Variant: the handler runs perform_scrape itself and answers afterwards.
run_inline(p) == "done"

\* background_tasks.add_task(perform_scrape): the run is queued, to be
\* started once the response has been sent.
add_task(p) == "scheduled"

\* The body trigger_scrape returns.
TriggerMessage == [message |-> "Scraping started in background"]

\* trigger_scrape: background_tasks.add_task(perform_scrape) and return;
\* run_at_return notes where the run stood when the response was produced.
\* Requests are served once startup has run; running scrapes are not looked at.
trigger_scrape ==
    /\ pc[1] # "idle"
    /\ \E r \in Runs \ {1} :
        /\ pc[r] = "idle"
        /\ \A q \in Runs : (1 < q /\ q < r) => pc[q] # "idle"
        /\ pc' = [pc EXCEPT ![r] = add_task(pc[r])]
        /\ trigger_resp' = [trigger_resp EXCEPT
                               ![r] = << [body |-> TriggerMessage,
                                          run_at_return |-> add_task(pc[r])] >>]
    /\ status_resp' = << >>
    /\ UNCHANGED <<locals, history, scraped_content, scrape_status, search_resp,
                   stats_vars>>

(* ------------------------------------------------------------------------ *)
(* perform_scrape, one await at a time                                       *)
(* ------------------------------------------------------------------------ *)

\* The run starts: scrape_all_websites opens the session and creates one
\* scrape_website task per site. No status is written here.
perform_scrape_start(r) ==
    /\ pc[r] = "scheduled"
    /\ pc' = [pc EXCEPT ![r] = "fetching"]
    /\ ended_before' = [ended_before EXCEPT ![r] = {q \in Runs : pc[q] = "done"}]
    /\ status_resp' = << >>
    /\ UNCHANGED <<locals, fetch_ok, fetch_failed, wrote, errored, scraped_content,
                   scrape_status, search_resp,
                   trigger_resp, stats_vars>>

\* One site's task settles.
scrape_website(r, s) ==
    /\ pc[r] = "fetching"
    /\ ~results[r][s].settled
    /\ \E o \in FetchOutcomes :
        /\ results' = [results EXCEPT ![r][s] = scrape_website_result(s, o)]
        /\ fetch_ok' = [fetch_ok EXCEPT
                           ![r] = IF o = "ok" THEN @ \cup {s} ELSE @]
        /\ fetch_failed' = [fetch_failed EXCEPT
                               ![r] = IF o = "ok" THEN @ ELSE @ \cup {s}]
    /\ status_resp' = << >>
    /\ UNCHANGED <<pc, content_list, idx, stored_count, wrote, errored,
                   ended_before, scraped_content, scrape_status, search_resp,
                   trigger_resp, stats_vars>>

\* gather returns, scrape_all_websites flattens the results and returns;
\* stored_count = 0.
gather(r) ==
    /\ pc[r] = "fetching"
    /\ GatherReady(results[r])
    /\ content_list' = [content_list EXCEPT ![r] = scrape_all_websites(results[r])]
    /\ results' = [results EXCEPT ![r] = NoResults]
    /\ idx' = [idx EXCEPT ![r] = 1]
    /\ stored_count' = [stored_count EXCEPT ![r] = 0]
    /\ pc' = [pc EXCEPT ![r] = "loop"]
    /\ status_resp' = << >>
    /\ UNCHANGED <<history, scraped_content, scrape_status, search_resp,
                   trigger_resp, stats_vars>>

\* existing = await find_one({"url": content.url}); a hit moves on to the
\* next candidate, a miss goes on to insert_one.
check_existing(r) ==
    /\ pc[r] = "loop"
    /\ idx[r] <= Len(content_list[r])
    /\ LET existing == find_one(scraped_content, content_list[r][idx[r]].url)
       IN  /\ pc' = [pc EXCEPT ![r] = IF existing THEN "loop" ELSE "insert"]
           /\ idx' = [idx EXCEPT ![r] = IF existing THEN @ + 1 ELSE @]
           /\ stored_count' = [stored_count EXCEPT
                                  ![r] = IF existing THEN CountAfter(TRUE, @) ELSE @]
    /\ status_resp' = << >>
    /\ UNCHANGED <<results, content_list, history, scraped_content,
                   scrape_status, search_resp,
                   trigger_resp, stats_vars>>

\* await insert_one(content.dict()); stored_count += 1
store_content(r) ==
    /\ pc[r] = "insert"
    /\ scraped_content' = insert_one(scraped_content,
                                     Document(content_list[r][idx[r]], r, idx[r]))
    /\ stored_count' = [stored_count EXCEPT ![r] = CountAfter(FALSE, @)]
    /\ idx' = [idx EXCEPT ![r] = @ + 1]
    /\ pc' = [pc EXCEPT ![r] = "loop"]
    /\ status_resp' = << >>
    /\ UNCHANGED <<results, content_list, history, scrape_status, search_resp,
                   trigger_resp, stats_vars>>

\* The loop is over: replace_one writes status completed, the run returns.
update_status(r) ==
    /\ pc[r] = "loop"
    /\ idx[r] > Len(content_list[r])
    /\ scrape_status' = replace_one(scrape_status, CompletedDoc(stored_count[r]))
    /\ wrote' = [wrote EXCEPT ![r] = << CompletedDoc(stored_count[r]) >>]
    /\ Return(r)
    /\ status_resp' = << >>
    /\ UNCHANGED <<results, fetch_ok, fetch_failed, errored, ended_before,
                   scraped_content, search_resp,
                   trigger_resp, stats_vars>>

\* An exception leaves the try body: the session (fetch phase), find_one,
\* insert_one or the completed replace_one raises.
raise_error(r) ==
    /\ \/ pc[r] = "fetching" /\ AllSettled(results[r])
       \/ pc[r] \in {"loop", "insert"}
    /\ pc' = [pc EXCEPT ![r] = "except"]
    /\ results' = [results EXCEPT ![r] = NoResults]
    /\ errored' = [errored EXCEPT ![r] = TRUE]
    /\ status_resp' = << >>
    /\ UNCHANGED <<content_list, idx, stored_count, fetch_ok, fetch_failed, wrote,
                   ended_before, scraped_content, scrape_status, search_resp,
                   trigger_resp, stats_vars>>

\* The except branch: replace_one writes status failed, the run returns.
except_status(r) ==
    /\ pc[r] = "except"
    /\ scrape_status' = replace_one(scrape_status, FailedDoc)
    /\ wrote' = [wrote EXCEPT ![r] = << FailedDoc >>]
    /\ Return(r)
    /\ status_resp' = << >>
    /\ UNCHANGED <<results, fetch_ok, fetch_failed, errored, ended_before,
                   scraped_content, search_resp,
                   trigger_resp, stats_vars>>

\* The replace_one of the except branch raises too: the exception leaves
\* perform_scrape and no status is written.
except_raises(r) ==
    /\ pc[r] = "except"
    /\ Return(r)
    /\ status_resp' = << >>
    /\ UNCHANGED <<results, history, scraped_content, scrape_status, search_resp,
                   trigger_resp, stats_vars>>

(* ------------------------------------------------------------------------ *)
(* get_scrape_status                                                         *)
(* ------------------------------------------------------------------------ *)

\* The ScrapeStatus the endpoint builds from find_one({"_id": "main"}).
ScrapeStatus(coll) ==
    IF coll = << >>
    THEN [status |-> "never_run", scraped_count |-> 0]
    ELSE [status |-> coll[1].status, scraped_count |-> coll[1].scraped_count]

\* in_flight notes whether a run was in flight when the cell was read.
get_scrape_status ==
    /\ pc[1] # "idle"
    /\ status_resp' = << [body |-> ScrapeStatus(scrape_status),
                          in_flight |-> \E r \in Runs : InFlight(r)] >>
    /\ UNCHANGED <<pc, locals, history, scraped_content, scrape_status, search_resp,
                   trigger_resp, stats_vars>>

(* ------------------------------------------------------------------------ *)
(* The ingestion pipeline on its own                                         *)
(* ------------------------------------------------------------------------ *)

Next ==
    \/ startup_event
    \/ trigger_scrape
    \/ \E r \in Runs : perform_scrape_start(r)
    \/ \E r \in Runs : \E s \in Sites : scrape_website(r, s)
    \/ \E r \in Runs : gather(r)
    \/ \E r \in Runs : check_existing(r)
    \/ \E r \in Runs : store_content(r)
    \/ \E r \in Runs : update_status(r)
    \/ \E r \in Runs : raise_error(r)
    \/ \E r \in Runs : except_status(r)
    \/ \E r \in Runs : except_raises(r)

Spec == Init /\ [][Next]_vars

(* ------------------------------------------------------------------------ *)
(* The pipeline with clients polling the status endpoint                     *)
(* ------------------------------------------------------------------------ *)

StatusNext ==
    \/ Next
    \/ get_scrape_status

StatusSpec == Init /\ [][StatusNext]_vars

\* The steps of one perform_scrape execution.
RunStep(r) ==
    \/ perform_scrape_start(r)
    \/ \E s \in Sites : scrape_website(r, s)
    \/ gather(r)
    \/ check_existing(r)
    \/ store_content(r)
    \/ update_status(r)
    \/ raise_error(r)
    \/ except_status(r)
    \/ except_raises(r)

\* The event loop resumes every task that can go on: fetches end by their
\* timeout, store calls answer or raise.
FairSpec == Spec /\ \A r \in Runs : WF_vars(RunStep(r))

(* ------------------------------------------------------------------------ *)
(* get_content_stats, one await at a time, beside the pipeline               *)
(* ------------------------------------------------------------------------ *)

\* db.scraped_content.count_documents({})
count_documents(coll) == Len(coll)

\* aggregate([{"$group": {"_id": "$<field>", "count": {"$sum": 1}}}]) turned
\* into the dict {item["_id"]: item["count"]}.
group_count(coll, field) ==
    [v \in {coll[k][field] : k \in DOMAIN coll} |->
        Cardinality({k \in DOMAIN coll : coll[k][field] = v})]

\* total_count = await count_documents({})
stats_count ==
    /\ pc[1] # "idle"
    /\ stats_pc = "idle"
    /\ stats' = [stats EXCEPT !.total_articles = count_documents(scraped_content)]
    /\ stats_pc' = "by_type"
    /\ UNCHANGED <<pc, locals, history, scraped_content, scrape_status,
                   status_resp, search_resp, trigger_resp>>

\* type_counts = await aggregate(group by content_type).to_list()
stats_by_type ==
    /\ stats_pc = "by_type"
    /\ stats' = [stats EXCEPT !.by_type = group_count(scraped_content, "content_type")]
    /\ stats_pc' = "by_source"
    /\ UNCHANGED <<pc, locals, history, scraped_content, scrape_status,
                   status_resp, search_resp, trigger_resp>>

\* source_counts = await aggregate(group by source_website).to_list(); the
\* three results are returned.
stats_by_source ==
    /\ stats_pc = "by_source"
    /\ stats' = [stats EXCEPT !.by_source = group_count(scraped_content, "source_website")]
    /\ stats_pc' = "returned"
    /\ UNCHANGED <<pc, locals, history, scraped_content, scrape_status,
                   status_resp, search_resp, trigger_resp>>

\* One of the three store calls raises: HTTPException(500), nothing returned.
stats_error ==
    /\ stats_pc \in {"by_type", "by_source"} \/ (stats_pc = "idle" /\ pc[1] # "idle")
    /\ stats' = NoStats
    /\ stats_pc' = "failed"
    /\ UNCHANGED <<pc, locals, history, scraped_content, scrape_status,
                   status_resp, search_resp, trigger_resp>>

StatsNext ==
    \/ Next
    \/ stats_count
    \/ stats_by_type
    \/ stats_by_source
    \/ stats_error

StatsSpec == Init /\ [][StatsNext]_vars

(* ------------------------------------------------------------------------ *)
(* Search over a populated store                                             *)
(* ------------------------------------------------------------------------ *)

\* Largest store searched.
MaxStore == 3

\* Largest limit requested.
MaxLimit == 2

\* Documents found in the store after ingestion runs over the sites' pages
\* of several days (title, description, content_type, tags, venue vary).
Corpus ==
    { Candidate("u1", 1, <<"a", "b">>, <<"b">>, "event",
                << <<"a">>, <<"a", "b">> >>, << <<"a", "t">> >>),
      Candidate("u2", 1, <<"B", "b">>, <<"a">>, "article", << >>, << >>),
      Candidate("u2", 2, <<"B", "b">>, <<"a">>, "article", << <<"b">> >>, << << >> >>),
      Candidate("u4", 2, <<"c", "c">>, <<"c">>, "article", << >>, << <<"A">> >>),
      Candidate("u5", 1, <<"c", "a", "b">>, <<"c", "c">>, "event",
                << <<"a">>, <<"A", "b">>, <<"b", "a">>, <<"a", "a">> >>, << <<"b", "a">> >>) }

\* The stores of up to MaxStore documents; each document has its own id.
Stores ==
    UNION { { [k \in 1..n |-> Document(f[k], 0, k)] : f \in [1..n -> Corpus] }
            : n \in 0..MaxStore }

Queries == { << >>, <<"a">>, <<"A", "b">>, <<"b">>, <<"c">> }

\* pydantic's `limit: int` takes every integer.
Limits == (0 - 1)..MaxLimit

\* Optional[str]: None is << >>.
TypeFilters == { << >>, <<"">>, <<"article">>, <<"event">>, <<"venue_info">> }

SearchInit ==
    /\ pc = [r \in Runs |-> "done"]
    /\ results = [r \in Runs |-> NoResults]
    /\ content_list = [r \in Runs |-> << >>]
    /\ idx = [r \in Runs |-> 0]
    /\ stored_count = [r \in Runs |-> 0]
    /\ scraped_content \in Stores
    /\ scrape_status = << >>
    /\ fetch_ok = [r \in Runs |-> {}]
    /\ fetch_failed = [r \in Runs |-> {}]
    /\ wrote = [r \in Runs |-> << >>]
    /\ errored = [r \in Runs |-> FALSE]
    /\ ended_before = [r \in Runs |-> {}]
    /\ status_resp = << >>
    /\ search_resp = << >>
    /\ trigger_resp = [r \in Runs |-> << >>]
    /\ stats_pc = "idle"
    /\ stats = NoStats

\* search_content answering one SearchQuery (requests only read the store,
\* so one request per store is followed).
search_content(query, limit, content_type) ==
    /\ search_resp = << >>
    /\ LET all_content    == find(scraped_content, content_type)
           unsorted       == ScoreAll(all_content, query, Len(all_content))
           scored_results == SortByScore(unsorted, Len(unsorted))
           answer         == IF all_content = << >> THEN << >>
                             ELSE Slice(scored_results, limit)
       IN  search_resp' = << [query |-> query, limit |-> limit,
                              content_type |-> content_type,
                              all_content |-> all_content,
                              scored_results |-> scored_results,
                              answer |-> answer] >>
    /\ UNCHANGED <<pc, locals, history, scraped_content, scrape_status,
                   status_resp, trigger_resp, stats_vars>>

SearchNext ==
    \E q \in Queries : \E l \in Limits : \E ct \in TypeFilters :
        search_content(q, l, ct)

SearchSpec == SearchInit /\ [][SearchNext]_vars

(* ------------------------------------------------------------------------ *)
(* Properties                                                                *)
(* ------------------------------------------------------------------------ *)

\* Number of stored documents that run r inserted.
InsertedBy(r) ==
    Cardinality({k \in DOMAIN scraped_content : scraped_content[k].id[1] = r})

\* Run r wrote status completed.
Completed(r) == wrote[r] # << >> /\ wrote[r][1].status = "completed"

RECURSIVE ArticlesOfFetched(_, _)
\* The candidates of the sites of `ok`, in site order.
ArticlesOfFetched(ok, n) ==
    IF n = 0 THEN << >>
    ELSE ArticlesOfFetched(ok, n - 1) \o (IF n \in ok THEN Articles(n) ELSE << >>)

\* C1: no two stored records share a url, under any interleaving of the
\* runs' find-by-url and insert steps.
C1_UrlUnique ==
    \A i, j \in DOMAIN scraped_content :
        i # j => scraped_content[i].url # scraped_content[j].url

\* C2: at most one ingestion run is in flight at any time.
C2_SingleRunInFlight == Cardinality({r \in Runs : InFlight(r)}) <= 1

\* C3: get_scrape_status called while a run is in flight reports running.
C3_RunningWhileInFlight ==
    (status_resp # << >> /\ status_resp[1].in_flight)
        => status_resp[1].body.status = "running"

\* C4: a run that finishes without an uncaught error has written status
\* completed with scraped_count equal to the number of records it inserted.
C4_CompletedCountsInserted ==
    \A r \in Runs :
        (pc[r] = "done" /\ ~errored[r])
            => wrote[r] = << [status |-> "completed", scraped_count |-> InsertedBy(r)] >>

\* A run completed having stored some of its candidates and skipped
\* others as duplicates, and its document is the one in the status cell.
C4_Witness ==
    \E r \in Runs :
        /\ pc[r] = "done" /\ ~errored[r]
        /\ InsertedBy(r) > 0
        /\ InsertedBy(r) < Len(ArticlesOfFetched(fetch_ok[r], Len(DUBLIN_WEBSITES)))
        /\ scrape_status = << [status |-> "completed", scraped_count |-> InsertedBy(r)] >>

\* C5: a run in which an uncaught error occurred has set the status cell to
\* failed with scraped_count 0.
C5_ErrorWritesFailed ==
    \A r \in Runs :
        (pc[r] = "done" /\ errored[r])
            => wrote[r] = << [status |-> "failed", scraped_count |-> 0] >>

\* The rest of C5: once the error has occurred the run stores nothing more
\* and what it had stored stays.
C5_StopsAndKeepsRecords ==
    [][\A r \in Runs :
          errored[r] =>
              /\ InsertedBy(r)' = InsertedBy(r)
              /\ SubSeq(scraped_content', 1, Len(scraped_content)) = scraped_content]_vars

\* Both passes read the same pages: every site settled, and the same sites
\* answered 200 (what a site serves does not change in this model).
IdenticalContent(r1, r2) ==
    /\ fetch_ok[r1] \cup fetch_failed[r1] = Sites
    /\ fetch_ok[r1] = fetch_ok[r2]
    /\ fetch_failed[r1] = fetch_failed[r2]

\* Run r stored nothing and any status it wrote says scraped_count 0.
StoredNothing(r) ==
    /\ InsertedBy(r) = 0
    /\ wrote[r] # << >> => wrote[r][1].scraped_count = 0

SortedByScore(seq) ==
    \A i, j \in DOMAIN seq :
        i < j => seq[i].relevance_score >= seq[j].relevance_score

\* C7: before truncation the result holds exactly the candidates (after the
\* content_type filter) that score above 0.1, sorted non-increasing by
\* score; the answer is its head, so no returned entry scores 0.1 or less.
C7_RankedAboveThreshold ==
    search_resp # << >> =>
        LET resp    == search_resp[1]
            passing == {k \in DOMAIN resp.all_content :
                           calculate_relevance_score(resp.all_content[k], resp.query) > Threshold}
        IN  /\ Len(resp.scored_results) = Cardinality(passing)
            /\ \A k \in passing :
                  \E n \in DOMAIN resp.scored_results :
                      /\ resp.scored_results[n].id = resp.all_content[k].id
                      /\ resp.scored_results[n].relevance_score =
                             calculate_relevance_score(resp.all_content[k], resp.query)
            /\ SortedByScore(resp.scored_results)
            /\ Len(resp.answer) <= Len(resp.scored_results)
            /\ \A n \in DOMAIN resp.answer : resp.answer[n] = resp.scored_results[n]
            /\ \A n \in DOMAIN resp.answer : resp.answer[n].relevance_score > Threshold

\* An answer of two entries with different scores, from a candidate set of
\* which one document scores exactly 0.1 and is left out.
C7_Witness ==
    /\ search_resp # << >>
    /\ Len(search_resp[1].answer) = 2
    /\ search_resp[1].answer[1].relevance_score > search_resp[1].answer[2].relevance_score
    /\ \E k \in DOMAIN search_resp[1].all_content :
          calculate_relevance_score(search_resp[1].all_content[k],
                                    search_resp[1].query) = Threshold

\* C8: the answer is no longer than the request's limit, for every integer
\* limit SearchQuery accepts.
C8_LengthAtMostLimit ==
    search_resp # << >> => Len(search_resp[1].answer) <= search_resp[1].limit

\* C9: when the request supplies a content_type, every returned result has
\* exactly that content_type, for every string supplied.
C9_OnlyRequestedType ==
    (search_resp # << >> /\ search_resp[1].content_type # << >>) =>
        \A n \in DOMAIN search_resp[1].answer :
            search_resp[1].answer[n].content_type = search_resp[1].content_type[1]

\* C10: whatever sites fail, the store phase starts only when every fetch
\* has settled, a failing site contributes no candidate, every candidate
\* of the other sites reaches the store phase, and the failures do not
\* keep the run from going on to it.
C10_FetchFailuresIsolated ==
    \A r \in Runs :
        /\ pc[r] \in {"loop", "insert"} =>
              /\ fetch_ok[r] \cup fetch_failed[r] = Sites
              /\ content_list[r] = ArticlesOfFetched(fetch_ok[r], Len(DUBLIN_WEBSITES))
              /\ \A k \in DOMAIN content_list[r] :
                    content_list[r][k].source_website \notin fetch_failed[r]
        /\ (pc[r] = "fetching" /\ fetch_ok[r] \cup fetch_failed[r] = Sites)
              => ENABLED gather(r)

\* A run whose first site failed is storing the second site's candidates.
C10_Witness ==
    \E r \in Runs :
        /\ pc[r] = "insert"
        /\ fetch_failed[r] = {1}
        /\ content_list[r] = Articles(2)

\* C11: calculate_relevance_score is in [0, 1] (0..1000 thousandths) for
\* every stored record and every query, so every SearchResult carries a
\* relevance_score in [0, 1], also when several tags match.
C11_ScoreInUnitInterval ==
    search_resp # << >> =>
        LET resp == search_resp[1]
        IN  /\ \A k \in DOMAIN resp.all_content :
                  /\ calculate_relevance_score(resp.all_content[k], resp.query) >= 0
                  /\ calculate_relevance_score(resp.all_content[k], resp.query) <= 1000
            /\ \A n \in DOMAIN resp.scored_results :
                  /\ resp.scored_results[n].relevance_score >= 0
                  /\ resp.scored_results[n].relevance_score <= 1000

\* A returned result scores exactly 1.0 for a document of which at least
\* three tags contain the query, its title matches and its venue too: the
\* weighted sum is above 1.0 before the clamp.
C11_Witness ==
    /\ search_resp # << >>
    /\ \E k \in DOMAIN search_resp[1].all_content :
          LET doc == search_resp[1].all_content[k]
              q   == Lower(search_resp[1].query)
          IN  /\ TagScore(doc.tags, q, Len(doc.tags)) >= 600
              /\ partial_ratio(q, Lower(doc.title)) * 4
                   + TagScore(doc.tags, q, Len(doc.tags))
                   + VenueScore(doc.venue, q) > 1000
              /\ \E n \in DOMAIN search_resp[1].answer :
                    /\ search_resp[1].answer[n].id = doc.id
                    /\ search_resp[1].answer[n].relevance_score = 1000

\* C12: trigger_scrape answers without waiting for the run it schedules:
\* whenever that run is queued, in flight or over, completed or failed, the
\* response exists, it was produced when the run had not started, and its
\* body says nothing of the outcome (which only the status cell holds).
C12_TriggerAnswersBeforeRun ==
    \A r \in Runs \ {1} :
        /\ pc[r] # "idle" => trigger_resp[r] # << >>
        /\ trigger_resp[r] # << >> =>
              /\ trigger_resp[r][1].run_at_return = "scheduled"
              /\ trigger_resp[r][1].body = [message |-> "Scraping started in background"]

\* A triggered run failed after its trigger had answered; the failure is in
\* the status cell.
C12_Witness ==
    \E r \in Runs \ {1} :
        /\ trigger_resp[r] # << >>
        /\ pc[r] = "done" /\ errored[r]
        /\ wrote[r] = << FailedDoc >>
        /\ scrape_status = << FailedDoc >>

\* C13: a run that has ended has written a terminal status, completed or
\* failed, also when a store error aborted it (a run that ended without
\* writing never writes, and the cell keeps the value it had).
C13_EndedRunWroteTerminal ==
    \A r \in Runs :
        pc[r] = "done" =>
            /\ wrote[r] # << >>
            /\ wrote[r][1].status \in {"completed", "failed"}

\* What does hold of C13, under FairSpec: every run that starts ends.
C13_StartedRunEnds ==
    \A r \in Runs : (pc[r] = "fetching") ~> (pc[r] = "done")

RECURSIVE SumOver(_, _)
\* The sum of the counts of a dict, over the keys of `keys`.
SumOver(counts, keys) ==
    IF keys = {} THEN 0
    ELSE LET k == CHOOSE x \in keys : TRUE
         IN  counts[k] + SumOver(counts, keys \ {k})

\* C14: what get_content_stats returns is consistent: total_articles is the
\* sum of the by_type counts and the sum of the by_source counts, also
\* while an ingestion run inserts records.
C14_StatsConsistent ==
    stats_pc = "returned" =>
        /\ stats.total_articles = SumOver(stats.by_type, DOMAIN stats.by_type)
        /\ stats.total_articles = SumOver(stats.by_source, DOMAIN stats.by_source)

====
